---- MODULE Spec2Model ----
(***************************************************************************)
(* subfs: the stream cache engine of SubFile.ReadAll (src/subFile.go).     *)
(*                                                                         *)
(* Every ReadAll call is three concurrent parties:                         *)
(*   the caller      - the select of lines 183-192 on byteChan and intr,   *)
(*   the goroutine   - the func literal of lines 43-181,                   *)
(*   the broadcaster - the func literal of lines 124-134.                  *)
(* The maps fileCache and streamMap and the counter cacheTotal are plain   *)
(* package globals used without a lock, so every access to them is a step  *)
(* of its own and the goroutines interleave between the steps.             *)
(* A channel made at line 79 is named by the call that made it.  A         *)
(* temporary file made at line 156 is named by the call that made it.      *)
(*                                                                         *)
(* The specifications share the variables:                                 *)
(*   Spec      - the mounted filesystem serving ReadAll calls,             *)
(*   LifeSpec  - func main from the connection to the exit, with requests  *)
(*               served in between,                                        *)
(*   DirSpec   - SubDir.ReadDir and SubDir.Lookup on the name tables,      *)
(*   ListSpec  - the listing of a directory over catalogs of many tracks,  *)
(*   EditSpec  - the tree with the operations that would change it,        *)
(*   IndexSpec - cacheIndexes and the root listing over time,              *)
(*   ShareSpec - Spec with the raw and the transcoded node of one track,   *)
(*   StreamSpec - SubFile.Read and fetchFile of the streaming variant      *)
(*               (src/unnamed/part_001, lines 357-550).                    *)
(***************************************************************************)
EXTENDS Integers, FiniteSets, Sequences, TLC

\* ---------------------------------------------------------------- bounds
\* number of ReadAll calls of one run
MaxCalls == 2

\* number of disturbances of one run: interrupts of a caller, failures of the
\* server or of the temporary directory, cache files removed from outside
MaxFaults == 1

\* ------------------------------------------------------------- constants
\* bytes of a megabyte, the factor 1024*1024 of lines 137, 143 and 150
MB == 1048576

\* threshold := 50, line 149
threshold == 50

\* retry := 3 of func main
retry == 3

\* the requests served in a run that goes through startup and shutdown
MaxLifeCalls == 1
LifeCalls == 1 .. MaxLifeCalls

Calls == 1 .. MaxCalls

\* the values of the -cache flag the runs are started with
CacheSizes == {0, 60}

\* The SubFile nodes ReadDir registers: an audio track whose declared size
\* is the catalog's size, a cover-art file whose Size is left zero, and the
\* transcode of the track, whose Size is the estimate for 8 seconds.
SubFiles ==
  << [ID |-> 1, FileName |-> "01 - a - t.flac", IsArt |-> FALSE, IsVideo |-> FALSE,
      Lossless |-> TRUE, Size |-> 50 * MB],
     [ID |-> 2, FileName |-> "2.jpg", IsArt |-> TRUE, IsVideo |-> FALSE,
      Lossless |-> FALSE, Size |-> 0],
     [ID |-> 1, FileName |-> "01 - a - t.mp3", IsArt |-> FALSE, IsVideo |-> FALSE,
      Lossless |-> FALSE, Size |-> 327680] >>

Files == DOMAIN SubFiles

\* the nodes of two ids: the track and the cover art
Served == {1, 2}

\* the nodes of one id: the two variants of the track, which ReadDir
\* registers with ID: a.ID both
Variants == {1, 3}

IDs == {SubFiles[f].ID : f \in Files}

Names == {SubFiles[f].FileName : f \in Files}

\* lengths of the byte streams the server may hold for a file
StreamLens(f) == IF f = 1 THEN {0, 50 * MB, 50 * MB + 1} ELSE {50 * MB}

\* a nil []byte
Nil == [file |-> 0, len |-> 0]

\* len(buf) of make([]byte, 8192), line 478 of fetchFile: the unit of the
\* lengths and offsets of the streaming variant
BufLen == 8192

\* the Read calls of one run
MaxReads == 2

Reads == 1 .. MaxReads

\* the buffers of the longest stream
MaxContent == 2

\* the lengths of the stream of the file, the offsets and the sizes of the
\* read requests of the kernel
StreamLengths == {k * BufLen : k \in 0 .. MaxContent}

Offsets == {k * BufLen : k \in 0 .. MaxContent - 1}

ReadSizes == {k * BufLen : k \in 1 .. MaxContent}

\* byteChan <- nil, and a Read that has returned nothing
NilReply == [len |-> 0, n |-> 0, tmp |-> 0, complete |-> TRUE]

\* no request has been sent to the server
NoRequest == [endpoint |-> "", Size |-> "", reply |-> ""]

VARIABLES
  cacheSize,   \* *cacheSize, the -cache flag (megabytes)
  upstream,    \* per file, the length of the stream the server serves
  fileCache,   \* FileName -> temporary file (0: no entry)
  cacheTotal,  \* the usage counter
  streamMap,   \* ID -> channel (0: no entry)
  closed,      \* the channels that have been closed
  disk,        \* the temporary files that exist on disk
  panicked,    \* a goroutine panicked: the process is gone
  opened,      \* ID -> open-stream requests sent while the entry of ID exists
  request,     \* per call, the request of openStream and the server's reply
  sfile,       \* per call, the receiver s (0: call not made yet)
  caller,      \* per call, the caller: "idle", "wait", "ret", "eintr"
  result,      \* per call, the bytes ReadAll returned
  pc,          \* per call, the position of the goroutine of line 43
  val,         \* per call, the bytes the goroutine is about to send on byteChan
  wch,         \* per call, streamChan of line 72 (0: the call did not join)
  bpc,         \* per call, the position of the goroutine of line 124
  bch,         \* per call, the channel operand of the select of line 127
  ret,         \* per call, the result of atomic.AddInt64 not yet stored back
  faults,      \* interrupts, failed calls and vanished files so far
  main,        \* the position of func main
  attempt,     \* i of the unmount loop
  fatal,       \* the log.Fatalf or os.Exit(1) that ended the process ("": none)
  catalog,     \* the titles the server holds: of an artist, a directory, a track
  indexCache,  \* the artists of the index cacheIndexes fetched (<<>>: not yet)
  nameToDir,   \* name -> SubDir
  nameToFile,  \* name -> SubFile
  handles,     \* the SubDir nodes the kernel holds: Root() and Lookup results
  listed,      \* the names the last ReadDir returned
  ldir,        \* the node the last ReadDir was called on
  lres,        \* the last Lookup: parent, name, and the node or ENOENT
  directories, \* the []fuse.Dirent the last ReadDir returned
  mres,        \* the last mutating operation and the error it returned
  ipc,         \* the position of cacheIndexes: "get", "send", "sleep"
  rwait,       \* the root listings that wait in <-indexChan
  slen,        \* the length of the stream the server serves to fetchFile
  tcache,      \* fileCache[s.ID] of fetchFile: the temporary file (0: no entry)
  tfile,       \* per temporary file, whether it is open or removed, and its length
  sreq,        \* per Read, req.Offset and req.Size
  reader,      \* per Read, the handler: "idle", "wait", "ret", "eintr"
  rres,        \* per Read, the bytes Read returned
  fpc,         \* per Read, the position of the fetchFile that answers it
  dpc,         \* per Read, the position of the fetchFile that downloads
  dsize        \* per Read, s.Size of the fetchFile that downloads

vars == << cacheSize, upstream, fileCache, cacheTotal, streamMap, closed, disk,
           panicked, opened, request, sfile, caller, result, pc, val, wch, bpc, bch,
           ret, faults, main, attempt, fatal, catalog, indexCache, nameToDir,
           nameToFile, handles, listed, ldir, lres, directories, mres, ipc,
           rwait, slen, tcache, tfile, sreq, reader, rres, fpc, dpc, dsize >>

\* the flag and the server never change during a run
env == << cacheSize, upstream >>

\* func main
life == << main, attempt, fatal >>

\* the directory tree: the server's catalog and the lookup tables
tree == << catalog, indexCache, nameToDir, nameToFile, handles, listed, ldir,
          lres, directories, mres, ipc, rwait >>

\* SubFile.Read and fetchFile, the streaming variant
streaming == << slen, tcache, tfile, sreq, reader, rres, fpc, dpc, dsize >>

\* what the goroutines share
globals == << fileCache, cacheTotal, streamMap, closed, disk, panicked, opened >>

\* ------------------------------------------------------- names and nodes
\* A name is a sequence of characters.  The characters of the titles of the
\* catalog: a letter and the two badChars of ReadDir.
Chars == {"a", "/", "\\"}

\* the length of a title of the catalog
MaxTitleLen == 1

\* the root listings that wait for the index at one time
MaxWaiting == 1

RECURSIVE SeqsUpTo(_)
SeqsUpTo(n) ==
  IF n = 0 THEN {<< >>}
  ELSE LET S == SeqsUpTo(n - 1) IN
         S \cup {Append(s, ch) : s \in {x \in S : Len(x) = n - 1}, ch \in Chars}

\* the titles a catalog can hold
Titles == SeqsUpTo(MaxTitleLen) \ {<< >>}

\* the catalog of the runs that read no directory
DefaultCatalog ==
  [artist |-> <<"a">>, dir |-> <<"a">>, track |-> <<"a">>, suffix |-> <<"f">>,
   tsuffix |-> <<"m">>, size |-> 50 * MB, duration |-> 8, dcover |-> 0,
   acover |-> 5, vcover |-> 5, artists |-> 2]

\* the catalog of a server whose index holds no artist
EmptyCatalog == [DefaultCatalog EXCEPT !.artists = 0]

\* the catalogs whose titles differ: of the artist and the directory, or of
\* the track
DirCatalogs ==
  {[DefaultCatalog EXCEPT !.artist = a, !.dir = d] : a \in Titles, d \in Titles}
    \cup {[DefaultCatalog EXCEPT !.track = t] : t \in Titles}

\* SubFS.Root: &SubDir{RelPath: ""}
RootDir == [ID |-> 0, RelPath |-> << >>]

\* no Lookup has been made
NoLookup ==
  [parent |-> RootDir, name |-> << >>, kind |-> "none", id |-> 0, path |-> << >>]

\* no mutating operation has been requested
NoMutation == [op |-> "", errno |-> ""]

\* ---------------------------------------------------------------- helpers
\* the process has not exited: no panic, no log.Fatalf or os.Exit(1), and main
\* has not returned
Running == ~panicked /\ fatal = "" /\ main # "done"

\* the filesystem is mounted and serving: between fuse.Mount and the
\* successful fuse.Unmount
Mounted == main \in {"serve", "purge", "unmount"}

\* *cacheSize*1024*1024
Budget == cacheSize * 1024 * 1024

\* s.ID, s.FileName, s.Size as the node holds them
IdOf(c) == SubFiles[sfile[c]].ID

NameOf(c) == SubFiles[sfile[c]].FileName

DeclaredSize(c) == SubFiles[sfile[c]].Size

\* SubFile.Attr on node s: Mode 0644 and Size uint64(s.Size).  ReadAll has a
\* value receiver, so s.Size = int64(len(file)) of line 106 writes the copy
\* of the goroutine; the node Lookup hands out is the one of nameToFile.
Attr(s) == [Mode |-> 420, Size |-> s.Size]

\* file, the bytes ioutil.ReadAll returned to call c
Content(c) == [file |-> sfile[c], len |-> upstream[sfile[c]]]

\* s.Size = int64(len(file))
RealizedSize(c) == upstream[sfile[c]]

\* the check of line 137 written with >=
CacheFullAtBudget(total) == total >= Budget

\* cacheTotal > *cacheSize*1024*1024
CacheFull(total) == total > Budget

\* the check of line 143 against twice the budget
WillOverflowDoubled(total, size) == total + size > 2 * Budget

\* cacheTotal+s.Size > *cacheSize*1024*1024
WillOverflow(total, size) == total + size > Budget

\* the check of line 150 against twice the threshold
TooLargeDoubled(size) == size > 2 * threshold * 1024 * 1024

\* s.Size > int64(threshold*1024*1024)
TooLarge(size) == size > threshold * 1024 * 1024

\* no Read has been made: no entry, no temporary file, no goroutine
NothingStreamed ==
  /\ tcache = 0
  /\ tfile = [r \in Reads |-> [state |-> "none", len |-> 0]]
  /\ sreq = [r \in Reads |-> [Offset |-> 0, Size |-> 0]]
  /\ reader = [r \in Reads |-> "idle"]
  /\ rres = [r \in Reads |-> NilReply]
  /\ fpc = [r \in Reads |-> "none"]
  /\ dpc = [r \in Reads |-> "none"]
  /\ dsize = [r \in Reads |-> 0]

\* ------------------------------------------------------------------- Init
\* The globals as func main initialises them, no request made yet, and main
\* waiting on sigChan: the filesystem is mounted and served.
Init ==
  /\ cacheSize \in CacheSizes
  /\ upstream \in {u \in [Files -> {0, 50 * MB, 50 * MB + 1}] :
                       \A f \in Files : u[f] \in StreamLens(f)}
  /\ fileCache = [n \in Names |-> 0]
  /\ cacheTotal = 0
  /\ streamMap = [i \in IDs |-> 0]
  /\ closed = {}
  /\ disk = {}
  /\ panicked = FALSE
  /\ opened = [i \in IDs |-> 0]
  /\ request = [c \in Calls |-> NoRequest]
  /\ sfile = [c \in Calls |-> 0]
  /\ caller = [c \in Calls |-> "idle"]
  /\ result = [c \in Calls |-> Nil]
  /\ pc = [c \in Calls |-> "idle"]
  /\ val = [c \in Calls |-> Nil]
  /\ wch = [c \in Calls |-> 0]
  /\ bpc = [c \in Calls |-> "none"]
  /\ bch = [c \in Calls |-> 0]
  /\ ret = [c \in Calls |-> 0]
  /\ faults = 0
  /\ main = "serve"
  /\ attempt = 0
  /\ fatal = ""
  /\ catalog = DefaultCatalog
  /\ indexCache = << >>
  /\ nameToDir = << >>
  /\ nameToFile = << >>
  /\ handles = {RootDir}
  /\ listed = {}
  /\ ldir = RootDir
  /\ lres = NoLookup
  /\ directories = << >>
  /\ mres = NoMutation
  /\ ipc = "get"
  /\ rwait = 0
  /\ slen = 0
  /\ NothingStreamed

\* ---------------------------------------- byteChan, lines 40 and 183-192
\* Where the goroutine goes on after its send on byteChan was received.
AfterSend(p) ==
  CASE p = "sendhit" -> "done"
    [] p = "sendjoin" -> "done"
    [] p = "senderr" -> "errclose"
    [] p = "sendfile" -> "admit"

\* byteChan <- v of lines 65, 74, 85, 97, 111 and 121, p naming the line.
\* byteChan is unbuffered and only the select of line 184 receives from it:
\* while the caller is in its select the bytes pass and ReadAll returns them
\* (line 188); once the caller has left through line 191 nobody receives, and
\* the goroutine stays in the send.  The send touches nothing shared, so it
\* is taken together with the step that produced v.
Send(c, p, v) ==
  /\ caller' = [caller EXCEPT ![c] = IF @ = "wait" THEN "ret" ELSE @]
  /\ result' = [result EXCEPT ![c] = IF caller[c] = "wait" THEN v ELSE @]
  /\ val' = [val EXCEPT ![c] = IF caller[c] = "wait" THEN Nil ELSE v]
  /\ pc' = [pc EXCEPT ![c] = IF caller[c] = "wait" THEN AfterSend(p) ELSE p]

\* case <-intr: return nil, fuse.EINTR (lines 190-191)
Interrupt(c) ==
  /\ Running
  /\ faults < MaxFaults
  /\ caller[c] = "wait"
  /\ caller' = [caller EXCEPT ![c] = "eintr"]
  /\ faults' = faults + 1
  /\ UNCHANGED << env, streaming, request, tree, life, globals, sfile, result, pc, val, wch, bpc, bch, ret >>

\* ------------------------------------------- the cache check, lines 38-68
\* ReadAll is called on node f: byteChan is made, the goroutine is started,
\* the caller enters the select of line 184, and the goroutine looks up
\* fileCache[s.FileName] and reads the file.  A file that is there with bytes
\* is returned; a file that is there without bytes gives len(buf) == 0 and
\* err == nil, and err.Error() of line 48 dereferences nil; a file that is
\* gone sends the goroutine to the purge of lines 49-62.
ReadAll(c, f) ==
  /\ Running
  /\ Mounted
  /\ caller[c] = "idle"
  /\ c > 1 => caller[c - 1] # "idle"
  /\ sfile' = [sfile EXCEPT ![c] = f]
  /\ LET t == fileCache[SubFiles[f].FileName] IN
       IF t = 0
       THEN /\ pc' = [pc EXCEPT ![c] = "join"]
            /\ caller' = [caller EXCEPT ![c] = "wait"]
            /\ UNCHANGED << result, val, panicked >>
       ELSE IF t \in disk
            THEN IF RealizedSize(t) = 0
                 THEN /\ panicked' = TRUE
                      /\ pc' = [pc EXCEPT ![c] = "cache"]
                      /\ caller' = [caller EXCEPT ![c] = "wait"]
                      /\ UNCHANGED << result, val >>
                 ELSE /\ pc' = [pc EXCEPT ![c] = "done"]
                      /\ caller' = [caller EXCEPT ![c] = "ret"]
                      /\ result' = [result EXCEPT ![c] = Content(t)]
                      /\ UNCHANGED << val, panicked >>
            ELSE /\ pc' = [pc EXCEPT ![c] = "evict"]
                 /\ caller' = [caller EXCEPT ![c] = "wait"]
                 /\ UNCHANGED << result, val, panicked >>
  /\ UNCHANGED << env, streaming, request, tree, life, fileCache, cacheTotal, streamMap, closed, disk, opened,
                  wch, bpc, bch, ret, faults >>

\* delete(fileCache, s.FileName) and atomic.AddInt64(&cacheTotal, -1*s.Size),
\* lines 51-52; s.Size is the size the node holds.
Evict(c) ==
  /\ Running
  /\ pc[c] = "evict"
  /\ fileCache' = [fileCache EXCEPT ![NameOf(c)] = 0]
  /\ cacheTotal' = cacheTotal - DeclaredSize(c)
  /\ ret' = [ret EXCEPT ![c] = cacheTotal - DeclaredSize(c)]
  /\ pc' = [pc EXCEPT ![c] = "estore"]
  /\ UNCHANGED << env, streaming, request, tree, life, streamMap, closed, disk, panicked, opened, sfile, caller,
                  result, val, wch, bpc, bch, faults >>

\* cacheTotal = <result of AddInt64>, the plain store of line 52
EvictStore(c) ==
  /\ Running
  /\ pc[c] = "estore"
  /\ cacheTotal' = ret[c]
  /\ ret' = [ret EXCEPT ![c] = 0]
  /\ pc' = [pc EXCEPT ![c] = "join"]
  /\ UNCHANGED << env, streaming, request, tree, life, fileCache, streamMap, closed, disk, panicked, opened,
                  sfile, caller, result, val, wch, bpc, bch, faults >>

\* ------------------------------------------ joining a stream, lines 70-76
\* streamChan, ok := streamMap[s.ID]
Join(c) ==
  /\ Running
  /\ pc[c] = "join"
  /\ IF streamMap[IdOf(c)] # 0
     THEN /\ wch' = [wch EXCEPT ![c] = streamMap[IdOf(c)]]
          /\ pc' = [pc EXCEPT ![c] = "recv"]
     ELSE /\ pc' = [pc EXCEPT ![c] = "make"]
          /\ UNCHANGED wch
  /\ UNCHANGED << env, streaming, request, tree, life, globals, sfile, caller, result, val, bpc, bch, ret, faults >>

\* <-streamChan on a closed channel yields the zero value, nil, which line 74
\* sends on
RecvClosed(c) ==
  /\ Running
  /\ pc[c] = "recv"
  /\ wch[c] \in closed
  /\ Send(c, "sendjoin", Nil)
  /\ UNCHANGED << env, streaming, request, tree, life, globals, sfile, wch, bpc, bch, ret, faults >>

\* --------------------------------------------- the fetch, lines 78-121
\* streamMap[s.ID] = make(chan []byte, 0)
Make(c) ==
  /\ Running
  /\ pc[c] = "make"
  /\ streamMap' = [streamMap EXCEPT ![IdOf(c)] = c]
  /\ pc' = [pc EXCEPT ![c] = "open"]
  /\ UNCHANGED << env, streaming, request, tree, life, fileCache, cacheTotal, closed, disk, panicked, opened,
                  sfile, caller, result, val, wch, bpc, bch, ret, faults >>

\* SubFile.openStream: the request sent for node s.  Cover art is asked of
\* GetCoverArt, lossless audio of Download, whose stream and error are
\* returned as they come, and the rest of Stream, a video with the Size
\* option.
openStream(s) ==
  IF s.IsArt
  THEN [endpoint |-> "GetCoverArt", Size |-> "", reply |-> ""]
  ELSE IF ~s.IsVideo /\ s.Lossless
       THEN [endpoint |-> "Download", Size |-> "", reply |-> ""]
       ELSE [endpoint |-> "Stream",
             Size |-> IF s.IsVideo THEN "1280x720" ELSE "",
             reply |-> ""]

\* how the server refuses a request: with an error, and a download also
\* because the user is not authorized to download files
Refusals(endpoint) ==
  IF endpoint = "Download" THEN {"error", "denied"} ELSE {"error"}

\* s.openStream(), ioutil.ReadAll(stream), s.Size = int64(len(file)) and
\* stream.Close(), lines 82-117: one request to the server; the three calls
\* touch nothing shared, and a failure of any of them sends nil.  After the
\* send of line 121 the goroutine of line 124 is started.
Fetch(c) ==
  /\ Running
  /\ pc[c] = "open"
  /\ opened' = [opened EXCEPT ![IdOf(c)] = @ + 1]
  /\ \/ /\ request' = [request EXCEPT ![c] =
                         [openStream(SubFiles[sfile[c]]) EXCEPT !.reply = "ok"]]
        /\ Send(c, "sendfile", Content(c))
        /\ bpc' = [bpc EXCEPT ![c] = IF caller[c] = "wait" THEN "eval" ELSE @]
        /\ UNCHANGED faults
     \/ /\ faults < MaxFaults
        /\ faults' = faults + 1
        /\ \E r \in Refusals(openStream(SubFiles[sfile[c]]).endpoint) :
             request' = [request EXCEPT ![c] =
                           [openStream(SubFiles[sfile[c]]) EXCEPT !.reply = r]]
        /\ Send(c, "senderr", Nil)
        /\ UNCHANGED bpc
  /\ UNCHANGED << env, streaming, tree, life, fileCache, cacheTotal, streamMap, closed, disk, panicked,
                  sfile, wch, bch, ret >>

\* close(streamMap[s.ID]); delete(streamMap, s.ID).  Closing a nil channel
\* (no entry) or a closed channel panics.
CloseAndDelete(id) ==
  IF streamMap[id] = 0 \/ streamMap[id] \in closed
  THEN /\ panicked' = TRUE
       /\ UNCHANGED << streamMap, closed, opened >>
  ELSE /\ closed' = closed \cup {streamMap[id]}
       /\ streamMap' = [streamMap EXCEPT ![id] = 0]
       /\ opened' = [opened EXCEPT ![id] = 0]
       /\ UNCHANGED panicked

\* lines 88-90, 100-102, 114-116
ErrClose(c) ==
  /\ Running
  /\ pc[c] = "errclose"
  /\ CloseAndDelete(IdOf(c))
  /\ pc' = [pc EXCEPT ![c] = IF panicked' THEN @ ELSE "done"]
  /\ UNCHANGED << env, streaming, request, tree, life, fileCache, cacheTotal, disk, sfile, caller, result, val,
                  wch, bpc, bch, ret, faults >>

\* ----------------------------------------- the broadcast, lines 123-134
\* the channel operand streamMap[s.ID] of the select is evaluated on entry
BEval(c) ==
  /\ Running
  /\ bpc[c] = "eval"
  /\ bch' = [bch EXCEPT ![c] = streamMap[IdOf(c)]]
  /\ bpc' = [bpc EXCEPT ![c] = "select"]
  /\ UNCHANGED << env, streaming, request, tree, life, globals, sfile, caller, result, pc, val, wch, ret, faults >>

\* the goroutines that are in <-streamChan of line 74 on channel ch
Receivers(ch) == {w \in Calls : pc[w] = "recv" /\ wch[w] = ch}

\* case streamMap[s.ID] <- file: one goroutine that is in <-streamChan of
\* line 74 on the same channel takes the bytes and sends them on (line 74)
BSend(c, w) ==
  /\ Running
  /\ bpc[c] = "select"
  /\ bch[c] # 0
  /\ bch[c] \notin closed
  /\ w \in Receivers(bch[c])
  /\ Send(w, "sendjoin", Content(c))
  /\ bpc' = [bpc EXCEPT ![c] = "close"]
  /\ UNCHANGED << env, streaming, request, tree, life, globals, sfile, wch, bch, ret, faults >>

\* a send on a channel that is closed panics
BSendClosed(c) ==
  /\ Running
  /\ bpc[c] = "select"
  /\ bch[c] \in closed
  /\ panicked' = TRUE
  /\ UNCHANGED << env, streaming, request, tree, life, fileCache, cacheTotal, streamMap, closed, disk, opened,
                  sfile, caller, result, pc, val, wch, bpc, bch, ret, faults >>

\* case <-time.After(time.Second * 10): the ten seconds pass only while no
\* goroutine is there to take the bytes
BTimeout(c) ==
  /\ Running
  /\ bpc[c] = "select"
  /\ bch[c] \notin closed
  /\ Receivers(bch[c]) = {}
  /\ bpc' = [bpc EXCEPT ![c] = "close"]
  /\ UNCHANGED << env, streaming, request, tree, life, globals, sfile, caller, result, pc, val, wch, bch, ret,
                  faults >>

\* lines 131-133
BClose(c) ==
  /\ Running
  /\ bpc[c] = "close"
  /\ CloseAndDelete(IdOf(c))
  /\ bpc' = [bpc EXCEPT ![c] = IF panicked' THEN @ ELSE "done"]
  /\ bch' = [bch EXCEPT ![c] = IF panicked' THEN @ ELSE 0]
  /\ UNCHANGED << env, streaming, request, tree, life, fileCache, cacheTotal, disk, sfile, caller, result, pc,
                  val, wch, ret, faults >>

\* ----------------------------------------- the admission, lines 136-180
\* The check of line 137: one read of cacheTotal.
CheckFull(c) ==
  /\ Running
  /\ pc[c] = "admit"
  /\ pc' = [pc EXCEPT ![c] = IF CacheFull(cacheTotal) THEN "done" ELSE "fit"]
  /\ UNCHANGED << env, streaming, request, tree, life, globals, sfile, caller, result, val, wch, bpc, bch, ret,
                  faults >>

\* the checks of lines 143-153 with a reclamation: content that does not fit
\* drops a record of the table and is then cached
CheckFitMakingRoom(c) ==
  /\ Running
  /\ pc[c] = "fit"
  /\ IF /\ WillOverflow(cacheTotal, RealizedSize(c))
        /\ ~TooLarge(RealizedSize(c))
        /\ \E n \in Names : fileCache[n] # 0
     THEN /\ \E n \in Names :
               /\ fileCache[n] # 0
               /\ fileCache' = [fileCache EXCEPT ![n] = 0]
               /\ cacheTotal' = cacheTotal - upstream[sfile[fileCache[n]]]
          /\ pc' = [pc EXCEPT ![c] = "tmp"]
     ELSE /\ pc' = [pc EXCEPT ![c] =
                     IF WillOverflow(cacheTotal, RealizedSize(c))
                        \/ TooLarge(RealizedSize(c))
                     THEN "done" ELSE "tmp"]
          /\ UNCHANGED << fileCache, cacheTotal >>
  /\ UNCHANGED << env, streaming, request, tree, life, streamMap, closed, disk, panicked, opened, sfile,
                  caller, result, val, wch, bpc, bch, ret, faults >>

\* The check of line 143, a second read of cacheTotal, and the check of line
\* 150, which reads only s.Size of the goroutine (set at line 106).
CheckFit(c) ==
  /\ Running
  /\ pc[c] = "fit"
  /\ pc' = [pc EXCEPT ![c] =
              IF WillOverflow(cacheTotal, RealizedSize(c)) \/ TooLarge(RealizedSize(c))
              THEN "done" ELSE "tmp"]
  /\ UNCHANGED << env, streaming, request, tree, life, globals, sfile, caller, result, val, wch, bpc, bch, ret,
                  faults >>

\* ioutil.TempFile and tmpFile.Write, lines 155-166, then
\* fileCache[s.FileName] = *tmpFile and atomic.AddInt64(&cacheTotal, s.Size),
\* lines 170 and 173.  TempFile fails and no file is made, or Write fails and
\* the file stays behind unregistered, or the entry is registered.  Nothing
\* else looks at the new file before it is registered.
CacheFile(c) ==
  /\ Running
  /\ pc[c] = "tmp"
  /\ \/ /\ faults < MaxFaults
        /\ faults' = faults + 1
        /\ pc' = [pc EXCEPT ![c] = "done"]
        /\ \/ UNCHANGED disk
           \/ disk' = disk \cup {c}
        /\ UNCHANGED << fileCache, cacheTotal, ret >>
     \/ /\ pc' = [pc EXCEPT ![c] = "store"]
        /\ disk' = disk \cup {c}
        /\ fileCache' = [fileCache EXCEPT ![NameOf(c)] = c]
        /\ cacheTotal' = cacheTotal + RealizedSize(c)
        /\ ret' = [ret EXCEPT ![c] = cacheTotal + RealizedSize(c)]
        /\ UNCHANGED faults
  /\ UNCHANGED << env, streaming, request, tree, life, streamMap, closed, panicked, opened, sfile, caller, result,
                  val, wch, bpc, bch >>

\* cacheTotal = <result of AddInt64>, the plain store of line 173
Store(c) ==
  /\ Running
  /\ pc[c] = "store"
  /\ cacheTotal' = ret[c]
  /\ ret' = [ret EXCEPT ![c] = 0]
  /\ pc' = [pc EXCEPT ![c] = "done"]
  /\ UNCHANGED << env, streaming, request, tree, life, fileCache, streamMap, closed, disk, panicked, opened,
                  sfile, caller, result, val, wch, bpc, bch, faults >>

\* ------------------------------------------------------- the environment
\* the backing file of a cache entry is removed from outside the process
Vanish(t) ==
  /\ Running
  /\ faults < MaxFaults
  /\ t \in disk
  /\ \E n \in Names : fileCache[n] = t
  /\ disk' = disk \ {t}
  /\ faults' = faults + 1
  /\ UNCHANGED << env, streaming, request, tree, life, fileCache, cacheTotal, streamMap, closed, panicked, opened,
                  sfile, caller, result, pc, val, wch, bpc, bch, ret >>

\* ---------------------------------------------------- the directory tree
\* subsonic.GetIndexes: the artists of the server's index
Artists ==
  SubSeq(<< [Name |-> catalog.artist, ID |-> 1], [Name |-> <<"b">>, ID |-> 2] >>,
         1, catalog.artists)

\* subsonic.GetMusicDirectory(id): directory 1 holds a directory, a lossless
\* track with a transcode and a video; the other directories are empty
GetMusicDirectory(id) ==
  IF id = 1
  THEN [Directories |-> << [ID |-> 3, Title |-> catalog.dir,
                            CoverArt |-> catalog.dcover] >>,
        Audio |-> << [ID |-> 4, Track |-> 1, Artist |-> catalog.artist,
                      Title |-> catalog.track, Suffix |-> catalog.suffix,
                      TranscodedSuffix |-> catalog.tsuffix, Size |-> catalog.size,
                      DurationRaw |-> catalog.duration,
                      CoverArt |-> catalog.acover] >>,
        Video |-> << [ID |-> 6, Title |-> catalog.track, Suffix |-> <<"v">>,
                      Size |-> 50 * MB, CoverArt |-> catalog.vcover] >>]
  ELSE [Directories |-> << >>, Audio |-> << >>, Video |-> << >>]

\* strings.Replace(s, b, "_", -1) for a b of one character
Replace(s, b) == [i \in DOMAIN s |-> IF s[i] = b THEN "_" ELSE s[i]]

\* for _, b := range badChars { s = strings.Replace(s, b, "_", -1) }
ReplaceBadChars(s) == Replace(Replace(s, "/"), "\\")

\* fmt.Sprintf("%d", n) for 0 <= n <= 99
Digit(n) == CASE n = 0 -> "0" [] n = 1 -> "1" [] n = 2 -> "2" [] n = 3 -> "3"
              [] n = 4 -> "4" [] n = 5 -> "5" [] n = 6 -> "6" [] n = 7 -> "7"
              [] n = 8 -> "8" [] n = 9 -> "9"
Decimal(n) == IF n < 10 THEN << Digit(n) >> ELSE << Digit(n \div 10), Digit(n % 10) >>

\* fmt.Sprintf("%02d - %s - %s.%s", a.Track, a.Artist, a.Title, suffix)
audioFormat(a, suffix) ==
  << Digit(a.Track \div 10), Digit(a.Track % 10) >> \o <<" ", "-", " ">>
    \o a.Artist \o <<" ", "-", " ">> \o a.Title \o <<".">> \o suffix

\* fmt.Sprintf("%s.%s", v.Title, v.Suffix)
videoFormat(v) == v.Title \o <<".">> \o v.Suffix

\* fmt.Sprintf("%d.jpg", c)
coverArtFormat(c) == Decimal(c) \o <<".", "j", "p", "g">>

\* an append without the check of unique
AddAlways(slice, id) == Append(slice, id)

\* unique(id, slice), and the append that follows it
AddUnique(slice, id) ==
  IF id = 0 \/ \E k \in DOMAIN slice : slice[k] = id THEN slice ELSE Append(slice, id)

\* the size estimate with a bitrate that is not 320
EstimateAt256(duration) == ((duration * 256) \div 8) * 1024

\* t.size = ((a.DurationRaw * 320) / 8) * 1024
Estimate(duration) == ((duration * 320) \div 8) * 1024

\* the transcodes of a track: the source, then the transcode with size 0;
\* an empty suffix is skipped, a size of 0 is estimated from the duration
Transcodes(a) ==
  LET both == << [suffix |-> a.Suffix, size |-> a.Size],
                 [suffix |-> a.TranscodedSuffix, size |-> 0] >>
      kept == SelectSeq(both, LAMBDA x : x.suffix # << >>)
  IN [k \in DOMAIN kept |->
        [suffix |-> kept[k].suffix,
         lossless |-> kept[k].size # 0,
         size |-> IF kept[k].size = 0
                  THEN Estimate(a.DurationRaw)
                  ELSE kept[k].size]]

\* the entries a listing makes, in the order of the loops of ReadDir: the
\* name, and the node registered under it
ArtistEntries ==
  [k \in DOMAIN indexCache |->
     [Name |-> indexCache[k].Name, Type |-> "dir",
      node |-> [ID |-> indexCache[k].ID, RelPath |-> << >>]]]

DirectoryEntries(d, content) ==
  [k \in DOMAIN content.Directories |->
     LET Title == ReplaceBadChars(content.Directories[k].Title) IN
       [Name |-> Title, Type |-> "dir",
        node |-> [ID |-> content.Directories[k].ID, RelPath |-> d.RelPath \o Title]]]

AudioEntriesOf(a) ==
  [k \in DOMAIN Transcodes(a) |->
     LET t == Transcodes(a)[k]
         name == ReplaceBadChars(audioFormat(a, t.suffix))
     IN [Name |-> name, Type |-> "file",
         node |-> [ID |-> a.ID, FileName |-> name, IsArt |-> FALSE,
                   IsVideo |-> FALSE, Lossless |-> t.lossless, Size |-> t.size]]]

RECURSIVE AudioEntries(_)
AudioEntries(audio) ==
  IF audio = << >> THEN << >>
  ELSE AudioEntriesOf(Head(audio)) \o AudioEntries(Tail(audio))

VideoEntries(content) ==
  [k \in DOMAIN content.Video |->
     LET v == content.Video[k]
         name == ReplaceBadChars(videoFormat(v))
     IN [Name |-> name, Type |-> "file",
         node |-> [ID |-> v.ID, FileName |-> name, IsArt |-> FALSE,
                   IsVideo |-> TRUE, Lossless |-> FALSE, Size |-> v.Size]]]

\* the cover art ids the loops collect: of the directories, of the tracks
\* that have a transcode entry, of the videos
RECURSIVE Collect(_, _)
Collect(slice, ids) ==
  IF ids = << >> THEN slice ELSE Collect(AddUnique(slice, Head(ids)), Tail(ids))

CoverArtIds(content) ==
  Collect(<< >>,
          [k \in DOMAIN content.Directories |-> content.Directories[k].CoverArt]
            \o [k \in DOMAIN content.Audio |->
                  IF Transcodes(content.Audio[k]) = << >> THEN 0
                  ELSE content.Audio[k].CoverArt]
            \o [k \in DOMAIN content.Video |-> content.Video[k].CoverArt])

CoverArtEntries(content) ==
  [k \in DOMAIN CoverArtIds(content) |->
     LET c == CoverArtIds(content)[k] IN
       [Name |-> coverArtFormat(c), Type |-> "file",
        node |-> [ID |-> c, FileName |-> coverArtFormat(c), IsArt |-> TRUE,
                  IsVideo |-> FALSE, Lossless |-> FALSE, Size |-> 0]]]

\* the directory entries ReadDir returns for node d
Entries(d) ==
  IF d.RelPath = << >> THEN ArtistEntries
  ELSE LET content == GetMusicDirectory(d.ID) IN
         DirectoryEntries(d, content) \o AudioEntries(content.Audio)
           \o VideoEntries(content) \o CoverArtEntries(content)

\* table[e.Name] = e.node for the entries of one type, in order
RECURSIVE Register(_, _, _)
Register(table, entries, type) ==
  IF entries = << >> THEN table
  ELSE Register(IF Head(entries).Type = type
                THEN (Head(entries).Name :> Head(entries).node) @@ table
                ELSE table,
                Tail(entries), type)

\* cacheIndexes, lines 154-162: subsonic.GetIndexes fails and the loop goes
\* round at once, or indexCache = index and the goroutine goes to the send
\* of line 163
CacheIndexes ==
  /\ Running
  /\ ipc = "get"
  /\ \/ /\ indexCache' = Artists
        /\ ipc' = "send"
        /\ UNCHANGED faults
     \/ /\ faults < MaxFaults
        /\ faults' = faults + 1
        /\ UNCHANGED << indexCache, ipc >>
  /\ UNCHANGED << env, streaming, request, life, globals, sfile, caller, result, pc, val, wch,
                  bpc, bch, ret, catalog, nameToDir, nameToFile, handles,
                  listed, ldir, lres, directories, mres, rwait >>

\* <-time.After(10 * time.Minute), line 166
IndexTimer ==
  /\ Running
  /\ ipc = "sleep"
  /\ ipc' = "get"
  /\ UNCHANGED << env, streaming, request, life, globals, sfile, caller, result, pc, val, wch,
                  bpc, bch, ret, faults, catalog, indexCache, nameToDir,
                  nameToFile, handles, listed, ldir, lres, directories, mres,
                  rwait >>

\* the loops of ReadDir on node d: the entries are registered in nameToDir
\* and nameToFile and returned.  The tables are written, never cleared.
List(d) ==
  /\ nameToDir' = Register(nameToDir, Entries(d), "dir")
  /\ nameToFile' = Register(nameToFile, Entries(d), "file")
  /\ directories' = [k \in DOMAIN Entries(d) |->
                       [Name |-> Entries(d)[k].Name, Type |-> Entries(d)[k].Type]]
  /\ listed' = {Entries(d)[k].Name : k \in DOMAIN Entries(d)}
  /\ ldir' = d

\* SubDir.ReadDir on a node the kernel holds.  At the root with an empty
\* indexCache it goes into <-indexChan of line 68.  Below the root
\* GetMusicDirectory fails and ENOENT is returned, or the entries are listed.
ReadDir(d) ==
  /\ Running
  /\ Mounted
  /\ d \in handles
  /\ IF d.RelPath = << >> /\ indexCache = << >>
     THEN /\ rwait < MaxWaiting
          /\ rwait' = rwait + 1
          /\ UNCHANGED << faults, nameToDir, nameToFile, directories, listed, ldir >>
     ELSE /\ \/ /\ d.RelPath # << >>
                /\ faults < MaxFaults
                /\ faults' = faults + 1
                /\ UNCHANGED << nameToDir, nameToFile, directories, listed, ldir >>
             \/ /\ List(d)
                /\ UNCHANGED faults
          /\ UNCHANGED rwait
  /\ UNCHANGED << env, streaming, request, life, globals, sfile, caller, result, pc, val, wch,
                  bpc, bch, ret, catalog, indexCache, handles, lres, mres, ipc >>

\* indexChan <- true of line 163 meets the <-indexChan of a root listing that
\* waits: cacheIndexes goes on to its timer and the listing to its loops.
\* indexChan has no buffer, so without a waiting listing the send stays.
IndexChan ==
  /\ Running
  /\ ipc = "send"
  /\ rwait > 0
  /\ ipc' = "sleep"
  /\ rwait' = rwait - 1
  /\ List(RootDir)
  /\ UNCHANGED << env, streaming, request, life, globals, sfile, caller, result, pc, val, wch,
                  bpc, bch, ret, faults, catalog, indexCache, handles, lres, mres >>

\* the names the kernel asks for: the registered ones and one that no
\* listing produces
LookupNames == DOMAIN nameToDir \cup DOMAIN nameToFile \cup {<<"z">>}

\* SubDir.Lookup(name) on node d: nameToDir, then nameToFile, then ENOENT.
\* The receiver d is not read.  A directory is returned with RelPath set to
\* name + "/".
Lookup(d, name) ==
  /\ Running
  /\ Mounted
  /\ d \in handles
  /\ name \in LookupNames
  /\ IF name \in DOMAIN nameToDir
     THEN /\ lres' = [parent |-> d, name |-> name, kind |-> "dir",
                      id |-> nameToDir[name].ID, path |-> name \o <<"/">>]
          /\ handles' = handles \cup
                          {[ID |-> nameToDir[name].ID, RelPath |-> name \o <<"/">>]}
     ELSE /\ lres' = [parent |-> d, name |-> name,
                      kind |-> IF name \in DOMAIN nameToFile THEN "file" ELSE "enoent",
                      id |-> IF name \in DOMAIN nameToFile
                             THEN nameToFile[name].ID ELSE 0,
                      path |-> << >>]
          /\ UNCHANGED handles
  /\ UNCHANGED << env, streaming, request, life, globals, sfile, caller, result, pc, val, wch,
                  bpc, bch, ret, faults, catalog, indexCache, nameToDir,
                  nameToFile, listed, ldir, directories, mres, ipc, rwait >>

\* the operations of SubDir that would change the tree
MutatingOps ==
  {"Create", "Fsync", "Link", "Mkdir", "Mknod", "Remove", "Removexattr",
   "Rename", "Setattr", "Setxattr", "Symlink"}

\* the error of an operation, were Mkdir to succeed
ErrnoMkdirAllowed(op) == IF op = "Mkdir" THEN "" ELSE "EROFS"

\* return fuse.Errno(syscall.EROFS), the body of each of the operations
Errno(op) == "EROFS"

\* SubDir.Create, Fsync, Link, Mkdir, Mknod, Remove, Removexattr, Rename,
\* Setattr, Setxattr and Symlink on node d: the error is returned and nothing
\* is written
Mutate(d, op) ==
  /\ Running
  /\ Mounted
  /\ d \in handles
  /\ mres' = [op |-> op, errno |-> Errno(op)]
  /\ UNCHANGED << env, streaming, request, life, globals, sfile, caller, result, pc, val, wch,
                  bpc, bch, ret, faults, catalog, indexCache, nameToDir,
                  nameToFile, handles, listed, ldir, lres, directories, ipc,
                  rwait >>

\* ------------------------------- SubFile.Read and fetchFile (streaming)
\* what Read and fetchFile leave alone
unread == << env, tree, life, fileCache, streamMap, closed, disk, panicked, opened,
             request, sfile, caller, result, pc, val, wch, bpc, bch, ret >>

\* SubFile.Read, lines 359-377: byteChan is made, fetchFile is started and
\* the handler waits in its select
Read(r, off, size) ==
  /\ Running
  /\ Mounted
  /\ reader[r] = "idle"
  /\ r > 1 => reader[r - 1] # "idle"
  /\ sreq' = [sreq EXCEPT ![r] = [Offset |-> off, Size |-> size]]
  /\ reader' = [reader EXCEPT ![r] = "wait"]
  /\ fpc' = [fpc EXCEPT ![r] = "check"]
  /\ UNCHANGED << unread, slen, tcache, tfile, rres, dpc, dsize, cacheTotal, faults >>

\* case <-intr: return fuse.EINTR, lines 374-375
ReadInterrupt(r) ==
  /\ Running
  /\ faults < MaxFaults
  /\ reader[r] = "wait"
  /\ reader' = [reader EXCEPT ![r] = "eintr"]
  /\ faults' = faults + 1
  /\ UNCHANGED << unread, slen, tcache, tfile, sreq, rres, fpc, dpc, dsize, cacheTotal >>

\* byteChan <- v of lines 393 and 425: byteChan has no buffer and only the
\* select of Read receives from it; after an interrupt the send stays
ByteChan(r, v) ==
  IF reader[r] = "wait"
  THEN /\ reader' = [reader EXCEPT ![r] = "ret"]
       /\ rres' = [rres EXCEPT ![r] = v]
       /\ fpc' = [fpc EXCEPT ![r] = "done"]
  ELSE /\ fpc' = [fpc EXCEPT ![r] = "blocked"]
       /\ UNCHANGED << reader, rres >>

\* n of cFile.ReadAt(buf, req.Offset) on a file of length len
ReadAt(len, off, size) ==
  IF len <= off THEN 0 ELSE IF len - off < size THEN len - off ELSE size

\* The cache check of fetchFile, lines 383-419.  Without an entry the
\* goroutine goes on to open the stream.  With an entry it reads the
\* temporary file at req.Offset into a buffer of req.Size bytes and sends
\* the whole buffer when ReadAt returns nil or io.EOF.  ReadAt on the handle
\* of a removed file returns another error, which is logged and tried again
\* after a second, for ever: that goroutine takes no step.
FetchFileCheck(r) ==
  /\ Running
  /\ fpc[r] = "check"
  /\ IF tcache = 0
     THEN /\ fpc' = [fpc EXCEPT ![r] = "open"]
          /\ UNCHANGED << reader, rres >>
     ELSE /\ tfile[tcache].state = "open"
          /\ ByteChan(r, [len |-> sreq[r].Size,
                          n |-> ReadAt(tfile[tcache].len, sreq[r].Offset, sreq[r].Size),
                          tmp |-> tcache,
                          complete |-> dpc[tcache] # "read"])
  /\ UNCHANGED << unread, slen, tcache, tfile, sreq, dpc, dsize, cacheTotal, faults >>

\* Lines 421-440: openStream fails and nil is sent; or ioutil.TempFile fails
\* and the goroutine returns without a send; or the temporary file is
\* registered in fileCache, empty, a second fetchFile is started to answer
\* the request, and this goroutine goes on to download.
FetchFileOpen(r) ==
  /\ Running
  /\ fpc[r] = "open"
  /\ \/ /\ faults < MaxFaults
        /\ faults' = faults + 1
        /\ \/ ByteChan(r, NilReply)
           \/ /\ fpc' = [fpc EXCEPT ![r] = "done"]
              /\ UNCHANGED << reader, rres >>
        /\ UNCHANGED << tcache, tfile, dpc, dsize >>
     \/ /\ tfile' = [tfile EXCEPT ![r] = [state |-> "open", len |-> 0]]
        /\ tcache' = r
        /\ dpc' = [dpc EXCEPT ![r] = "read"]
        /\ dsize' = [dsize EXCEPT ![r] = SubFiles[1].Size]
        /\ fpc' = [fpc EXCEPT ![r] = "check"]
        /\ UNCHANGED << reader, rres, faults >>
  /\ UNCHANGED << unread, slen, sreq, cacheTotal >>

\* One turn of the loop of lines 476-499: a buffer is read from the stream
\* and written to the temporary file; or the stream is at its end, or fails,
\* and s.Size = total; or the write fails and s.Size stays as declared.
StreamRead(r) ==
  /\ Running
  /\ dpc[r] = "read"
  /\ \/ /\ tfile[r].len < slen
        /\ tfile' = [tfile EXCEPT ![r].len = @ + BufLen]
        /\ UNCHANGED << dpc, dsize, faults >>
     \/ /\ tfile[r].len >= slen
        /\ dsize' = [dsize EXCEPT ![r] = tfile[r].len]
        /\ dpc' = [dpc EXCEPT ![r] = "close"]
        /\ UNCHANGED << tfile, faults >>
     \/ /\ tfile[r].len < slen
        /\ faults < MaxFaults
        /\ faults' = faults + 1
        /\ dpc' = [dpc EXCEPT ![r] = "close"]
        /\ \/ dsize' = [dsize EXCEPT ![r] = tfile[r].len]
           \/ UNCHANGED dsize
        /\ UNCHANGED tfile
  /\ UNCHANGED << unread, slen, tcache, sreq, reader, rres, fpc, cacheTotal >>

\* stream.Close(), lines 501-509: on an error the goroutine returns
StreamClose(r) ==
  /\ Running
  /\ dpc[r] = "close"
  /\ \/ /\ dpc' = [dpc EXCEPT ![r] = "admit"]
        /\ UNCHANGED faults
     \/ /\ faults < MaxFaults
        /\ faults' = faults + 1
        /\ dpc' = [dpc EXCEPT ![r] = "done"]
  /\ UNCHANGED << unread, slen, tcache, tfile, sreq, reader, rres, fpc, dsize,
                  cacheTotal >>

\* The cache conditions of lines 511-549: when one of them holds the
\* temporary file is closed and removed, the entry of fileCache staying;
\* otherwise s.Size is added to cacheTotal.
StreamAdmit(r) ==
  /\ Running
  /\ dpc[r] = "admit"
  /\ IF \/ CacheFull(cacheTotal)
        \/ WillOverflow(cacheTotal, dsize[r])
        \/ TooLarge(dsize[r])
     THEN /\ tfile' = [tfile EXCEPT ![r].state = "removed"]
          /\ UNCHANGED cacheTotal
     ELSE /\ cacheTotal' = cacheTotal + dsize[r]
          /\ UNCHANGED tfile
  /\ dpc' = [dpc EXCEPT ![r] = "done"]
  /\ UNCHANGED << unread, slen, tcache, sreq, reader, rres, fpc, dsize, faults >>

\* ------------------------------------------------------------ func main
\* gosubsonic.New: the connection is made or log.Fatalf ends the process
Connect ==
  /\ Running
  /\ main = "connect"
  /\ \/ main' = "mount" /\ UNCHANGED fatal
     \/ fatal' = "connect" /\ UNCHANGED main
  /\ UNCHANGED << env, streaming, request, tree, globals, sfile, caller, result, pc, val, wch, bpc, bch,
                  ret, faults, attempt >>

\* fuse.Mount: the filesystem is mounted or log.Fatalf ends the process; then
\* fs.Serve is started and main waits on sigChan
Mount ==
  /\ Running
  /\ main = "mount"
  /\ \/ main' = "serve" /\ UNCHANGED fatal
     \/ fatal' = "mount" /\ UNCHANGED main
  /\ UNCHANGED << env, streaming, request, tree, globals, sfile, caller, result, pc, val, wch, bpc, bch,
                  ret, faults, attempt >>

\* fs.Serve returns an error in its goroutine: log.Fatalf
ServeFail ==
  /\ Running
  /\ main \in {"serve", "purge", "unmount", "close"}
  /\ faults < MaxFaults
  /\ faults' = faults + 1
  /\ fatal' = "serve"
  /\ UNCHANGED << env, streaming, request, tree, globals, sfile, caller, result, pc, val, wch, bpc, bch,
                  ret, main, attempt >>

\* os.Interrupt or SIGTERM arrives on sigChan and the range loop breaks
Signal ==
  /\ Running
  /\ main = "serve"
  /\ main' = "purge"
  /\ UNCHANGED << env, streaming, request, tree, globals, sfile, caller, result, pc, val, wch, bpc, bch,
                  ret, faults, attempt, fatal >>

\* for _, f := range fileCache { f.Close(); os.Remove(f.Name()) }: the file of
\* every entry of the table is removed from disk.  The table and cacheTotal
\* are not written.  An entry a goroutine registers while the loop runs is
\* visited or not: registered before this step or after it.
Purge ==
  /\ Running
  /\ main = "purge"
  /\ disk' = disk \ {fileCache[n] : n \in Names}
  /\ main' = "unmount"
  /\ attempt' = 0
  /\ UNCHANGED << env, streaming, request, tree, fileCache, cacheTotal, streamMap, closed, panicked,
                  opened, sfile, caller, result, pc, val, wch, bpc, bch, ret,
                  faults, fatal >>

\* i == retry at another index
LastAttemptLate(i) == i = retry + 1

\* if i == retry
LastAttempt(i) == i = retry

\* one turn of the unmount loop: fuse.Unmount succeeds and the loop breaks, or
\* it fails and the loop goes on with i+1, or it fails on the last attempt
\* and os.Exit(1) is called
Unmount ==
  /\ Running
  /\ main = "unmount"
  /\ \/ main' = "close" /\ UNCHANGED << attempt, fatal >>
     \/ IF LastAttempt(attempt)
        THEN fatal' = "unmount" /\ UNCHANGED << main, attempt >>
        ELSE attempt' = attempt + 1 /\ UNCHANGED << main, fatal >>
  /\ UNCHANGED << env, streaming, request, tree, globals, sfile, caller, result, pc, val, wch, bpc, bch,
                  ret, faults >>

\* c.Close(): main returns, or log.Fatalf on an error
Close ==
  /\ Running
  /\ main = "close"
  /\ \/ main' = "done" /\ UNCHANGED fatal
     \/ fatal' = "close" /\ UNCHANGED main
  /\ UNCHANGED << env, streaming, request, tree, globals, sfile, caller, result, pc, val, wch, bpc, bch,
                  ret, faults, attempt >>

\* the steps of func main
MainStep ==
  \/ Connect
  \/ Mount
  \/ Signal
  \/ Purge
  \/ Unmount
  \/ Close

\* ------------------------------------------------------------------ Next
\* the steps of the goroutine of line 43 of call c
GoStep(c) ==
  \/ Evict(c)
  \/ EvictStore(c)
  \/ Join(c)
  \/ RecvClosed(c)
  \/ Make(c)
  \/ Fetch(c)
  \/ ErrClose(c)
  \/ CheckFull(c)
  \/ CheckFit(c)
  \/ CacheFile(c)
  \/ Store(c)

\* the steps of the goroutine of line 124 of call c
BStep(c) ==
  \/ BEval(c)
  \/ \E w \in Calls : BSend(c, w)
  \/ BSendClosed(c)
  \/ BTimeout(c)
  \/ BClose(c)

Next ==
  \/ \E c \in Calls, f \in Served : ReadAll(c, f)
  \/ \E c \in Calls : Interrupt(c)
  \/ \E c \in Calls : GoStep(c)
  \/ \E c \in Calls : BStep(c)
  \/ \E t \in Calls : Vanish(t)

Spec == Init /\ [][Next]_vars

\* ------------------------------------------- the two variants of a track
\* The mounted filesystem serving ReadAll calls on the raw and on the
\* transcoded variant of one track.
ShareNext ==
  \/ \E c \in Calls, f \in Variants : ReadAll(c, f)
  \/ \E c \in Calls : Interrupt(c)
  \/ \E c \in Calls : GoStep(c)
  \/ \E c \in Calls : BStep(c)
  \/ \E t \in Calls : Vanish(t)

ShareSpec == Init /\ [][ShareNext]_vars

\* ------------------------------------------------ the life of the process
\* func main from its first line, the flag and the server as in Init, and
\* MaxLifeCalls requests read while the filesystem is mounted.  A request
\* that has no other request beside it finds no stream to join and no entry
\* to purge, so those steps are not part of this specification.
LifeInit ==
  /\ cacheSize \in CacheSizes
  /\ upstream \in {u \in [Files -> {0, 50 * MB, 50 * MB + 1}] :
                       \A f \in Files : u[f] \in StreamLens(f)}
  /\ fileCache = [n \in Names |-> 0]
  /\ cacheTotal = 0
  /\ streamMap = [i \in IDs |-> 0]
  /\ closed = {}
  /\ disk = {}
  /\ panicked = FALSE
  /\ opened = [i \in IDs |-> 0]
  /\ request = [c \in Calls |-> NoRequest]
  /\ sfile = [c \in Calls |-> 0]
  /\ caller = [c \in Calls |-> "idle"]
  /\ result = [c \in Calls |-> Nil]
  /\ pc = [c \in Calls |-> "idle"]
  /\ val = [c \in Calls |-> Nil]
  /\ wch = [c \in Calls |-> 0]
  /\ bpc = [c \in Calls |-> "none"]
  /\ bch = [c \in Calls |-> 0]
  /\ ret = [c \in Calls |-> 0]
  /\ faults = 0
  /\ main = "connect"
  /\ attempt = 0
  /\ fatal = ""
  /\ catalog = DefaultCatalog
  /\ indexCache = << >>
  /\ nameToDir = << >>
  /\ nameToFile = << >>
  /\ handles = {RootDir}
  /\ listed = {}
  /\ ldir = RootDir
  /\ lres = NoLookup
  /\ directories = << >>
  /\ mres = NoMutation
  /\ ipc = "get"
  /\ rwait = 0
  /\ slen = 0
  /\ NothingStreamed

LifeNext ==
  \/ MainStep
  \/ ServeFail
  \/ \E c \in LifeCalls, f \in Served : ReadAll(c, f)
  \/ \E c \in LifeCalls : Interrupt(c)
  \/ \E c \in LifeCalls :
        \/ Join(c)
        \/ Make(c)
        \/ Fetch(c)
        \/ ErrClose(c)
        \/ CheckFull(c)
        \/ CheckFit(c)
        \/ CacheFile(c)
        \/ Store(c)
        \/ BEval(c)
        \/ BTimeout(c)
        \/ BClose(c)
  \/ \E t \in LifeCalls : Vanish(t)

LifeSpec == LifeInit /\ [][LifeNext]_vars

\* ------------------------------------------------------ the tree as served
\* The mounted filesystem with a catalog of set C, listed and looked up by
\* the kernel; no file is read.
TreeInit(C) ==
  /\ cacheSize = 0
  /\ upstream = [f \in Files |-> 50 * MB]
  /\ fileCache = [n \in Names |-> 0]
  /\ cacheTotal = 0
  /\ streamMap = [i \in IDs |-> 0]
  /\ closed = {}
  /\ disk = {}
  /\ panicked = FALSE
  /\ opened = [i \in IDs |-> 0]
  /\ request = [c \in Calls |-> NoRequest]
  /\ sfile = [c \in Calls |-> 0]
  /\ caller = [c \in Calls |-> "idle"]
  /\ result = [c \in Calls |-> Nil]
  /\ pc = [c \in Calls |-> "idle"]
  /\ val = [c \in Calls |-> Nil]
  /\ wch = [c \in Calls |-> 0]
  /\ bpc = [c \in Calls |-> "none"]
  /\ bch = [c \in Calls |-> 0]
  /\ ret = [c \in Calls |-> 0]
  /\ faults = 0
  /\ main = "serve"
  /\ attempt = 0
  /\ fatal = ""
  /\ catalog \in C
  /\ indexCache = << >>
  /\ nameToDir = << >>
  /\ nameToFile = << >>
  /\ handles = {RootDir}
  /\ listed = {}
  /\ ldir = RootDir
  /\ lres = NoLookup
  /\ directories = << >>
  /\ mres = NoMutation
  /\ ipc = "get"
  /\ rwait = 0
  /\ slen = 0
  /\ NothingStreamed

\* a catalog of any titles
DirInit == TreeInit(DirCatalogs)

DirNext ==
  \/ CacheIndexes
  \/ IndexChan
  \/ \E d \in handles : ReadDir(d)
  \/ \E d \in handles : \E name \in LookupNames : Lookup(d, name)

DirSpec == DirInit /\ [][DirNext]_vars

\* ------------------------------------------------- the index over time
\* The tree of the default catalog, and of a server without artists, over
\* the ten minutes of cacheIndexes.  The goroutine of cacheIndexes runs
\* whenever it can take a step and its timer fires; the kernel lists and
\* looks up as it likes.
IndexInit == TreeInit({DefaultCatalog, EmptyCatalog})

IndexNext ==
  \/ DirNext
  \/ IndexTimer

IndexSpec ==
  /\ IndexInit
  /\ [][IndexNext]_vars
  /\ WF_vars(CacheIndexes)
  /\ WF_vars(IndexChan)
  /\ WF_vars(IndexTimer)

\* ------------------------------------------------- the listing of a directory
\* The catalogs whose track differs in its suffixes, its size and its
\* duration, and the catalogs whose entries differ in their cover art, the
\* track having both suffixes or none.
Suffixes == {<< >>, <<"f">>}

TranscodedSuffixes == {<< >>, <<"m">>}

Sizes == {0, 50 * MB}

\* the longest of the short durations of a track, in seconds
MaxDuration == 2

Durations == (0 .. MaxDuration) \cup {180}

CoverArts == {0, 5, 7}

ListCatalogs ==
  {[DefaultCatalog EXCEPT !.suffix = x, !.tsuffix = y, !.size = z, !.duration = u] :
      x \in Suffixes, y \in TranscodedSuffixes, z \in Sizes, u \in Durations}
    \cup {[c EXCEPT !.dcover = u, !.acover = v, !.vcover = w] :
            c \in {DefaultCatalog,
                   [DefaultCatalog EXCEPT !.suffix = << >>, !.tsuffix = << >>]},
            u \in CoverArts, v \in CoverArts, w \in CoverArts}

\* The kernel walks the tree: it lists a node and looks up the directories
\* of the listing on it.
ListInit == TreeInit(ListCatalogs)

ListNext ==
  \/ CacheIndexes
  \/ IndexChan
  \/ \E d \in handles : ReadDir(d)
  \/ \E name \in listed \cap DOMAIN nameToDir : Lookup(ldir, name)

ListSpec == ListInit /\ [][ListNext]_vars

\* ------------------------------------------------- the read-only tree
\* The tree of the default catalog with the operations that would change it.
EditInit == TreeInit({DefaultCatalog})

EditNext ==
  \/ ListNext
  \/ \E d \in handles : \E op \in MutatingOps : Mutate(d, op)

EditSpec == EditInit /\ [][EditNext]_vars

\* ------------------------------------------------- the streaming variant
\* The mounted filesystem serving Read calls on one file through fetchFile,
\* the stream of the file being of any length of StreamLengths.
StreamInit ==
  /\ cacheSize \in CacheSizes
  /\ upstream = [f \in Files |-> 50 * MB]
  /\ fileCache = [n \in Names |-> 0]
  /\ cacheTotal = 0
  /\ streamMap = [i \in IDs |-> 0]
  /\ closed = {}
  /\ disk = {}
  /\ panicked = FALSE
  /\ opened = [i \in IDs |-> 0]
  /\ request = [c \in Calls |-> NoRequest]
  /\ sfile = [c \in Calls |-> 0]
  /\ caller = [c \in Calls |-> "idle"]
  /\ result = [c \in Calls |-> Nil]
  /\ pc = [c \in Calls |-> "idle"]
  /\ val = [c \in Calls |-> Nil]
  /\ wch = [c \in Calls |-> 0]
  /\ bpc = [c \in Calls |-> "none"]
  /\ bch = [c \in Calls |-> 0]
  /\ ret = [c \in Calls |-> 0]
  /\ faults = 0
  /\ main = "serve"
  /\ attempt = 0
  /\ fatal = ""
  /\ catalog = DefaultCatalog
  /\ indexCache = << >>
  /\ nameToDir = << >>
  /\ nameToFile = << >>
  /\ handles = {RootDir}
  /\ listed = {}
  /\ ldir = RootDir
  /\ lres = NoLookup
  /\ directories = << >>
  /\ mres = NoMutation
  /\ ipc = "get"
  /\ rwait = 0
  /\ slen \in StreamLengths
  /\ NothingStreamed

StreamNext ==
  \/ \E r \in Reads, off \in Offsets, size \in ReadSizes : Read(r, off, size)
  \/ \E r \in Reads : ReadInterrupt(r)
  \/ \E r \in Reads : FetchFileCheck(r)
  \/ \E r \in Reads : FetchFileOpen(r)
  \/ \E r \in Reads : StreamRead(r)
  \/ \E r \in Reads : StreamClose(r)
  \/ \E r \in Reads : StreamAdmit(r)

StreamSpec == StreamInit /\ [][StreamNext]_vars

\* The Go scheduler runs every goroutine that can take a step, and the timer
\* of line 128 fires; calls, interrupts and the outside world are free.
FairSpec ==
  /\ Spec
  /\ \A c \in Calls : WF_vars(GoStep(c))
  /\ \A c \in Calls : WF_vars(BStep(c))

\* =================================================================== claims
\* the calls that are fetching the stream of id i right now
Fetching(i) == {c \in Calls : pc[c] = "open" /\ IdOf(c) = i}

\* the process is gone
Exited == ~Running

\* call o read its stream to the end: it is in the send of line 121 or past it
FetchOK(o) == pc[o] = "sendfile" \/ bpc[o] # "none"

RECURSIVE SumSizes(_)
\* the sum of the realized sizes of the temporary files of set T
SumSizes(T) ==
  IF T = {} THEN 0
  ELSE LET t == CHOOSE x \in T : TRUE IN upstream[sfile[t]] + SumSizes(T \ {t})

\* the temporary files the cache table holds
Cached == {fileCache[n] : n \in Names} \ {0}

\* C1: Of the concurrent ReadAll calls on one content id at most one becomes
\* the fetcher: never are two fetches of the id running at the same time, and
\* the server gets one open-stream request for the id while its in-flight
\* entry exists.
C1_OneFetchPerId ==
  \A i \in IDs : Cardinality(Fetching(i)) <= 1 /\ opened[i] <= 1

\* C2: A caller that joined an in-flight fetch which read its stream gets,
\* when ReadAll returns to it, the bytes the fetcher read, never nil.
C2_WaiterGetsFetchedBytes ==
  \A w \in Calls :
    (caller[w] = "ret" /\ wch[w] # 0 /\ FetchOK(wch[w]) /\ upstream[sfile[w]] > 0)
      => result[w] = Content(wch[w])

\* C3: In every reachable state cacheTotal is the sum of the realized sizes of
\* the entries of the cache table.
C3_TotalIsSumOfEntries == cacheTotal = SumSizes(Cached)

\* C4: While the calls of a run read different items, the usage counter never
\* exceeds the budget of cacheSize megabytes.
C4_WithinBudget ==
  (\A c, d \in Calls : (c # d /\ sfile[c] # 0) => sfile[c] # sfile[d])
    => cacheTotal <= cacheSize * 1024 * 1024

\* C5: When the caller that originated a fetch is interrupted while the fetch
\* runs, the fetch goes on in the background: it reaches the broadcast of
\* lines 123-134 (unless the server fails the request).
C5_CancelledFetchCompletes ==
  \A c \in Calls :
    (caller[c] = "eintr" /\ pc[c] = "open")
      ~> (bpc[c] # "none" \/ pc[c] = "senderr" \/ Exited)

\* C6: When the originator of a fetch or another waiter of it is interrupted,
\* a caller that waits on the same fetch still returns in the end.
C6_OthersStillReturn ==
  \A w \in Calls :
    (/\ caller[w] = "wait"
     /\ pc[w] = "recv"
     /\ \E c \in Calls \ {w} :
          caller[c] = "eintr" /\ (c = wch[w] \/ wch[c] = wch[w]))
      ~> (caller[w] # "wait" \/ Exited)

\* C7: Every entry of the in-flight table is removed in the end.
C7_InFlightRemoved ==
  \A i \in IDs : (streamMap[i] # 0) ~> (streamMap[i] = 0 \/ Exited)

\* C8: A waiter that the broadcast of a completed fetch did not serve never
\* returns nil as the successful result of ReadAll.
C8_WaiterNeverReturnsNil ==
  \A w \in Calls :
    (caller[w] = "ret" /\ wch[w] # 0 /\ FetchOK(wch[w]) /\ upstream[sfile[w]] > 0)
      => result[w] # Nil

\* C9: Content of more than 50 MB is never written to a temporary file and
\* never registered in the cache table.
C9_LargeNeverCached ==
  \A c \in Calls :
    (c \in disk \/ c \in Cached \/ pc[c] \in {"tmp", "store"})
      => upstream[sfile[c]] <= 50 * 1024 * 1024

\* a fetch of more than 50 MB was returned and left no file and no entry
\* although the budget had room for it
C9_Witness ==
  \E c \in Calls :
    /\ pc[c] = "done"
    /\ bpc[c] # "none"
    /\ upstream[sfile[c]] > 50 * 1024 * 1024
    /\ cacheTotal + upstream[sfile[c]] <= cacheSize * 1024 * 1024
    /\ c \notin disk
    /\ c \notin Cached

\* C10 as claimed: content gets past admission condition (a), and so to the
\* temporary file, only while the usage is strictly below the budget; at
\* usage = budget nothing is admitted.
C10_Original ==
  [][\A c \in Calls :
       (pc[c] = "admit" /\ pc'[c] = "fit") => cacheTotal < cacheSize * 1024 * 1024]_vars

\* C10 as amended: content is persisted only after it got past condition (a),
\* and it gets past (a) exactly when the usage read there does not exceed the
\* budget, usage = budget included.
C10_Amended ==
  [][\A c \in Calls :
       /\ (pc[c] # "tmp" /\ pc'[c] = "tmp") => pc[c] = "fit"
       /\ (pc[c] # "fit" /\ pc'[c] = "fit") => pc[c] = "admit"
       /\ (pc[c] = "admit" /\ pc'[c] # "admit") =>
            (pc'[c] = "fit" <=> cacheTotal <= cacheSize * 1024 * 1024)]_vars

\* zero-length content has passed the three checks at usage = budget and is
\* about to be written and registered
C10_Witness ==
  \E c \in Calls :
    /\ pc[c] = "tmp"
    /\ upstream[sfile[c]] = 0
    /\ cacheTotal = cacheSize * 1024 * 1024

\* C11: A record enters the cache table only in the step that follows the
\* three admission checks: the goroutine that registers it went from the check
\* of line 137 (usage read there not above the budget) through the checks of
\* lines 143 and 150 (usage read there plus the realized size not above the
\* budget, realized size not above 50 MB) to the registration, and the record
\* is the one of its own item.
C11_RegisteredAfterAdmission ==
  [][\A c \in Calls :
       /\ (pc[c] # "fit" /\ pc'[c] = "fit") =>
            (pc[c] = "admit" /\ cacheTotal <= cacheSize * 1024 * 1024)
       /\ (pc[c] # "tmp" /\ pc'[c] = "tmp") =>
            /\ pc[c] = "fit"
            /\ cacheTotal + upstream[sfile[c]] <= cacheSize * 1024 * 1024
            /\ upstream[sfile[c]] <= 50 * 1024 * 1024
       /\ \A n \in Names :
            (fileCache'[n] = c /\ fileCache[n] # c) =>
              (pc[c] = "tmp" /\ n = SubFiles[sfile[c]].FileName)]_vars

\* a record of content of 50 MB is in the table, registered by a goroutine
\* that passed the checks
C11_Witness ==
  \E c \in Calls :
    /\ c \in Cached
    /\ pc[c] \in {"store", "done"}
    /\ upstream[sfile[c]] = 50 * 1024 * 1024

\* C12: When a call finds the backing file of a record gone, the step that
\* drops the record from the table lowers the usage counter by the size of
\* that record, the realized size that was added when it was registered.
C12_EvictDecrementsEntrySize ==
  [][\A n \in Names :
       (fileCache[n] # 0 /\ fileCache'[n] = 0) =>
         cacheTotal' = cacheTotal - upstream[sfile[fileCache[n]]]]_vars

\* C13: A record leaves the cache table only in the purge step of a call
\* that found the backing file missing (lines 49-52), and an admission
\* attempt that is rejected leaves the table and the usage counter as they
\* were: no record is dropped to make room.
C13_NoEvictionForRoom ==
  [][/\ \A n \in Names :
          (fileCache[n] # 0 /\ fileCache'[n] = 0) =>
            \E c \in Calls :
              /\ pc[c] = "evict"
              /\ pc'[c] = "estore"
              /\ SubFiles[sfile[c]].FileName = n
     /\ \A c \in Calls :
          (pc[c] \in {"admit", "fit"} /\ pc'[c] \in {"done", "tmp"}) =>
            (fileCache' = fileCache /\ cacheTotal' = cacheTotal)]_vars

\* fetched content of at most 50 MB did not fit beside the record in the
\* table, was not cached, and the record is still there
C13_Witness ==
  \E c \in Calls :
    /\ pc[c] = "done"
    /\ bpc[c] # "none"
    /\ c \notin Cached
    /\ c \notin disk
    /\ Cached # {}
    /\ upstream[sfile[c]] <= 50 * 1024 * 1024
    /\ cacheTotal + upstream[sfile[c]] > cacheSize * 1024 * 1024
    /\ cacheTotal = SumSizes(Cached)

\* C14: Once main has returned at the end of the shutdown, no temporary file
\* made during the session is left on disk.
C14_NoTempFileAfterShutdown == main = "done" => disk = {}

\* C15: The purge of the shutdown leaves the usage counter at zero and the
\* cache table without records.
C15_PurgeResetsCache ==
  [][(main = "purge" /\ main' = "unmount") =>
       (cacheTotal' = 0 /\ \A n \in Names : fileCache'[n] = 0)]_vars

C17_OnlyStartupAndUnmountFatal ==
  (panicked \/ fatal # "") => fatal \in {"connect", "mount", "unmount"}

\* C18: A call whose request to the server failed (opening, reading or closing
\* the stream returned an error) does not return as a successful read: once
\* its goroutine has handed over the outcome of the failed request, the
\* caller has not left through 'return stream, nil'.
C18_UpstreamErrorIsError ==
  \A c \in Calls : pc[c] = "errclose" => caller[c] # "ret"

\* C19: A Lookup finds a node only under a name that the most recent listing
\* produced: the tables hold one listing generation, so a name that only an
\* earlier listing produced is answered with ENOENT.
C19_LookupOnlyCurrentListing ==
  [][(lres' # lres /\ lres'.kind \in {"dir", "file"}) => lres'.name \in listed]_vars

\* C20: No name that a listing registered in nameToDir or nameToFile or
\* returned as a directory entry contains '/' or '\'.
C20_NoSeparatorInNames ==
  \A n \in DOMAIN nameToDir \cup DOMAIN nameToFile \cup listed :
    \A k \in DOMAIN n : n[k] \notin {"/", "\\"}

\* C23: Once a goroutine has read the content of a file, Attr on the node of
\* the file reports the realized length of the content.
C23_AttrReportsRealized ==
  \A c \in Calls :
    (sfile[c] # 0 /\ pc[c] \in {"admit", "fit", "tmp", "store"})
      => Attr(SubFiles[sfile[c]]).Size = RealizedSize(c)

\* C25: No two goroutines are at the same time between the atomic.AddInt64
\* on cacheTotal and the plain store of its result (lines 52 and 173), so no
\* update of the counter is lost.
C25_CounterUpdatesExclusive ==
  \A c, d \in Calls :
    (c # d /\ pc[c] \in {"store", "estore"}) => pc[d] \notin {"store", "estore"}

\* C24: The stream of a file comes from the endpoint of its kind: cover art
\* from GetCoverArt, a video from Stream with Size 1280x720, transcoded audio
\* from Stream without Size, lossless audio from Download, and from Stream
\* when the download was denied: no call ends on a denied download.
C24_EndpointByKind ==
  \A c \in Calls :
    request[c] # NoRequest =>
      LET s == SubFiles[sfile[c]] IN
        /\ s.IsArt => request[c].endpoint = "GetCoverArt"
        /\ (~s.IsArt /\ s.IsVideo) =>
             (request[c].endpoint = "Stream" /\ request[c].Size = "1280x720")
        /\ (~s.IsArt /\ ~s.IsVideo /\ ~s.Lossless) =>
             (request[c].endpoint = "Stream" /\ request[c].Size = "")
        /\ (~s.IsArt /\ ~s.IsVideo /\ s.Lossless) =>
             \/ request[c].endpoint = "Download" /\ request[c].reply # "denied"
             \/ request[c].endpoint = "Stream" /\ request[c].Size = ""

\* C22: The last listing being one of the root, it returned one directory
\* entry per artist of the index, in the order of the index; and once the
\* root has been listed, a Lookup of the name of an artist at the root gives
\* a directory with the id of that artist.
C22_RootListingAndLookup ==
  /\ (nameToDir # << >> /\ ldir = RootDir) =>
       directories = [k \in DOMAIN indexCache |->
                        [Name |-> indexCache[k].Name, Type |-> "dir"]]
  /\ \A k \in DOMAIN indexCache :
       (lres.kind # "none" /\ lres.parent = RootDir /\ lres.name = indexCache[k].Name)
         => (lres.kind = "dir" /\ lres.id = indexCache[k].ID)

\* C29: A directory node that Lookup returned for a name of the last listing
\* of its parent has the path of the parent followed by that name (with or
\* without the closing separator).
C29_PathIsParentPathPlusTitle ==
  (lres.kind = "dir" /\ lres.parent = ldir /\ lres.name \in listed)
    => lres.path \in {lres.parent.RelPath \o lres.name,
                      lres.parent.RelPath \o lres.name \o <<"/">>}

\* C21: Every step that answers a mutating operation on a directory returns
\* EROFS and leaves nameToDir, nameToFile, fileCache, cacheTotal and
\* streamMap as they are; every operation of MutatingOps is answered with
\* EROFS; and a step that changes nameToDir or nameToFile is a listing of
\* ReadDir.
C21_MutationsRejected ==
  [][/\ mres' # mres =>
          /\ mres'.op \in MutatingOps
          /\ mres'.errno = "EROFS"
          /\ UNCHANGED << nameToDir, nameToFile, fileCache, cacheTotal, streamMap >>
     /\ \A op \in MutatingOps : Errno(op) = "EROFS"
     /\ (nameToDir' # nameToDir \/ nameToFile' # nameToFile) =>
          /\ mres' = mres
          /\ nameToDir' = Register(nameToDir, Entries(ldir'), "dir")
          /\ nameToFile' = Register(nameToFile, Entries(ldir'), "file")]_vars

\* Rename was asked for on a node below the root while the tables hold a
\* listing, and was answered with EROFS
C21_Witness ==
  /\ mres = [op |-> "Rename", errno |-> "EROFS"]
  /\ nameToFile # << >>
  /\ \E d \in handles : d.RelPath # << >>

\* C30: Whenever cacheIndexes has stored an index and stands at line 163, it
\* comes back to subsonic.GetIndexes in the end, a root listing waiting for
\* the index or not.
C30_RefreshRecurs == (ipc = "send") ~> (ipc = "get")

\* the last listing that returned entries was one of directory 1, the
\* directory that holds the track and the video
ListedDir1 == ldir.RelPath # << >> /\ ldir.ID = 1

\* the track of directory 1 and the names of its two variants
Track == GetMusicDirectory(1).Audio[1]

RawName == ReplaceBadChars(audioFormat(Track, Track.Suffix))

TranscodedName == ReplaceBadChars(audioFormat(Track, Track.TranscodedSuffix))

\* the positions of the entries of the last listing that have name n
EntriesNamed(n) == {k \in DOMAIN directories : directories[k].Name = n}

\* the positions of the cover-art entries of the last listing
ArtEntries ==
  {k \in DOMAIN directories :
     directories[k].Type = "file" /\ nameToFile[directories[k].Name].IsArt}

\* the cover-art ids of the entries of directory 1: of its directories, of
\* its tracks that yield a file entry, of its videos
ReferencedCoverArt ==
  LET content == GetMusicDirectory(1) IN
    ({content.Directories[k].CoverArt : k \in DOMAIN content.Directories}
       \cup {content.Audio[k].CoverArt :
               k \in {j \in DOMAIN content.Audio :
                        content.Audio[j].Suffix # << >>
                          \/ content.Audio[j].TranscodedSuffix # << >>}}
       \cup {content.Video[k].CoverArt : k \in DOMAIN content.Video}) \ {0}

\* C26: A listing has at most two file entries of a track: the raw variant
\* exactly when the suffix is not empty, with the size of the catalog and
\* marked lossless, and the transcoded variant exactly when the transcoded
\* suffix is not empty, marked not lossless and with the estimated size.
C26_RawAndTranscodedVariants ==
  ListedDir1 =>
    /\ Cardinality(EntriesNamed(RawName) \cup EntriesNamed(TranscodedName)) <= 2
    /\ (Track.Suffix # << >>) <=> (EntriesNamed(RawName) # {})
    /\ (Track.Suffix # << >>) =>
         /\ nameToFile[RawName].Lossless
         /\ nameToFile[RawName].Size = Track.Size
    /\ (Track.TranscodedSuffix # << >>) <=> (EntriesNamed(TranscodedName) # {})
    /\ (Track.TranscodedSuffix # << >>) =>
         /\ ~nameToFile[TranscodedName].Lossless
         /\ nameToFile[TranscodedName].Size = Estimate(Track.DurationRaw)

\* C27: The size of a listed transcoded variant is
\* duration * 320 * 1024 / 8 bytes, for every duration of Durations.
C27_EstimatedSize ==
  (ListedDir1 /\ Track.TranscodedSuffix # << >>) =>
    nameToFile[TranscodedName].Size = (Track.DurationRaw * 320 * 1024) \div 8

\* a track of 180 seconds is listed with a transcoded variant of 7,372,800
\* bytes
C27_Witness ==
  /\ ListedDir1
  /\ Track.DurationRaw = 180
  /\ Track.TranscodedSuffix # << >>
  /\ nameToFile[TranscodedName].Size = 7372800

\* C28: The cover-art entries of a listing are one entry named <id>.jpg for
\* each cover-art id other than 0 of the directories, of the tracks that
\* yield a file entry and of the videos of the directory: none for id 0,
\* none twice, each registered as the cover-art node of its id.
C28_OneEntryPerCoverArt ==
  ListedDir1 =>
    /\ {directories[k].Name : k \in ArtEntries}
         = {coverArtFormat(c) : c \in ReferencedCoverArt}
    /\ \A j, k \in ArtEntries : directories[j].Name = directories[k].Name => j = k
    /\ EntriesNamed(coverArtFormat(0)) = {}
    /\ \A c \in ReferencedCoverArt :
         /\ nameToFile[coverArtFormat(c)].ID = c
         /\ nameToFile[coverArtFormat(c)].IsArt

\* a directory without cover art, a track and a video of one cover art: one
\* cover-art entry
C28_Witness ==
  /\ ListedDir1
  /\ catalog.dcover = 0
  /\ catalog.acover # 0
  /\ catalog.acover = catalog.vcover
  /\ Track.Suffix # << >>
  /\ Cardinality(ArtEntries) = 1

\* C31: A ReadAll that finds an entry of fileCache whose file is on disk
\* returns the bytes of that file, whatever their number, without a panic
\* and without a request to the server, and leaves fileCache, cacheTotal and
\* streamMap as they are.
C31_HitReturnsStoredBytes ==
  [][\A c \in Calls :
       (/\ caller[c] = "idle"
        /\ caller'[c] # "idle"
        /\ fileCache[SubFiles[sfile'[c]].FileName] \in disk)
         => /\ caller'[c] = "ret"
            /\ result'[c] = Content(fileCache[SubFiles[sfile'[c]].FileName])
            /\ ~panicked'
            /\ UNCHANGED << fileCache, cacheTotal, streamMap, opened, request >>]_vars

\* C34: No step makes the process panic on a channel: the only panic is the
\* nil dereference of the cache check of line 48.
C34_NoChannelPanic ==
  [][(~panicked /\ panicked') => \E c \in Calls : pc[c] = "idle" /\ pc'[c] = "cache"]_vars

\* C33: The bytes a ReadAll call returns are bytes of the node the call was
\* made on, never those of another node of the same id.
C33_BytesOfTheSameFile ==
  \A c \in Calls :
    (caller[c] = "ret" /\ result[c] # Nil) => result[c].file = sfile[c]

\* C35: While cacheIndexes sleeps between two refreshes, the index fetched,
\* no root listing is waiting in <-indexChan: a listing is answered by the
\* refresh at hand, not by a later one.
C35_NoWaitAcrossRefresh == ~(rwait > 0 /\ ipc = "sleep")

\* the bytes of the content in the range of request r
InRange(r) ==
  IF slen <= sreq[r].Offset THEN 0
  ELSE IF slen - sreq[r].Offset < sreq[r].Size THEN slen - sreq[r].Offset
       ELSE sreq[r].Size

\* C32: The bytes a Read returns were read from a temporary file whose
\* download had ended, and they are as many as the content has in
\* [req.Offset, req.Offset + req.Size): none beyond the end of the content.
C32_ReadReturnsRangeOfContent ==
  \A r \in Reads :
    (reader[r] = "ret" /\ rres[r].tmp # 0)
      => (rres[r].complete /\ rres[r].len = InRange(r))

====
